---- MODULE Spec2Model ----
(***************************************************************************)
(* Model of the daily production scheduler of src/src/App.js: the          *)
(* scheduleData computation of ScheduleView (task expansion, ranking,      *)
(* greedy allocation against the daily budget, overflow).                  *)
(*                                                                         *)
(* JavaScript values that may be absent are modelled as sequences of       *)
(* length 0 or 1: << >> is undefined / null / the empty string of a form   *)
(* field, <<v>> is the value v.  Minutes and money are integers.           *)
(***************************************************************************)
EXTENDS Integers, Sequences, FiniteSets, TLC

VARIABLES
    scheduleOrders,    \* prop scheduleOrders = data.schedule?.orders
    items,             \* prop items = data.items
    machines,          \* prop machines = data.machines
    settings,          \* prop settings = data.settings
    pc,                \* position of the scheduleData computation
    allTasks,          \* const allTasks, after the sort
    taskIndex,         \* number of tasks of allTasks the for loop has processed
    machineTimelines,  \* const machineTimelines: machine name -> {tasks, currentTime}
    totalProfit,       \* let totalProfit
    overflowTasks,     \* const overflowTasks
    scheduleData,      \* value returned by the computation
    data,              \* state data of App
    clock,             \* Date.now(), counted in the ids handed out so far
    shown              \* history: the first value scheduleData took since the
                       \* scheduleOrders prop last changed, << >> before that

vars == <<scheduleOrders, items, machines, settings, pc, allTasks, taskIndex,
          machineTimelines, totalProfit, overflowTasks, scheduleData,
          data, clock, shown>>

inputs == <<scheduleOrders, items, machines, settings>>

app == <<data, clock>>

locals == <<allTasks, taskIndex, machineTimelines, totalProfit, overflowTasks>>

-----------------------------------------------------------------------------
(* Bounds of the explored inputs *)

MaxQty == 2
MaxOrders == 2

(* Program constants *)

DefaultWorkHours == 8
MinutesPerHour == 60

-----------------------------------------------------------------------------
(* JavaScript helpers *)

\* parseFloat(v) || 0 : an unparsable or empty field, and 0 itself, give 0
parseFloatOr0(v) == IF v = << >> THEN 0 ELSE v[1]

\* items.find(i => i.id === id): index of the first match, 0 when there is none
RECURSIVE findFrom(_, _, _)
findFrom(list, id, k) ==
    IF k > Len(list) THEN 0
    ELSE IF list[k].id = id THEN k
    ELSE findFrom(list, id, k + 1)

find(list, id) == findFrom(list, id, 1)

RECURSIVE flatten(_)
flatten(seqs) ==
    IF seqs = << >> THEN << >> ELSE Head(seqs) \o flatten(Tail(seqs))

-----------------------------------------------------------------------------
(* Task expansion, lines 526-540 *)

\* variant: the guard tests buildTime < 0
dropsOrderBelowZero(order, catalog) ==
    LET k == find(catalog, order.itemId) IN
        \/ k = 0
        \/ catalog[k].buildTime = << >>
        \/ catalog[k].buildTime[1] < 0

\* !itemDetails || !itemDetails.buildTime || itemDetails.buildTime <= 0
dropsOrder(order, catalog) ==
    LET k == find(catalog, order.itemId) IN
        \/ k = 0
        \/ catalog[k].buildTime = << >>
        \/ catalog[k].buildTime[1] <= 0

itemProfit(itemDetails) ==
    parseFloatOr0(itemDetails.price) - parseFloatOr0(itemDetails.cost)

\* profitPerMinute = profit / buildTime is kept as the exact fraction
\* <<profit, buildTime>>, buildTime > 0
orderTasks(order, catalog) ==
    IF dropsOrder(order, catalog) THEN << >>
    ELSE LET itemDetails == catalog[find(catalog, order.itemId)] IN
        [i \in 1..order.quantity |->
            [id              |-> <<order.itemId, i - 1>>,
             name            |-> order.itemName,
             buildTime       |-> itemDetails.buildTime[1],
             profit          |-> itemProfit(itemDetails),
             profitPerMinute |-> <<itemProfit(itemDetails), itemDetails.buildTime[1]>>,
             allowedMachines |-> itemDetails.allowedMachines]]

expandTasks(orders, catalog) ==
    flatten([k \in 1..Len(orders) |-> orderTasks(orders[k], catalog)])

-----------------------------------------------------------------------------
(* Ranking, line 542 *)

\* sign of a.profitPerMinute - b.profitPerMinute, by cross multiplication
\* (both denominators are positive)
ppmLess(a, b) ==
    a.profitPerMinute[1] * b.profitPerMinute[2]
        < b.profitPerMinute[1] * a.profitPerMinute[2]

ppmEqual(a, b) ==
    a.profitPerMinute[1] * b.profitPerMinute[2]
        = b.profitPerMinute[1] * a.profitPerMinute[2]

\* variant: the comparator a.profitPerMinute - b.profitPerMinute
comesAfterAscending(a, b) == ppmLess(b, a)

\* variant: a sort that also moves b before a when the two tie
comesAfterOrTies(a, b) == ~ppmLess(b, a)

\* the comparator (a, b) => b.profitPerMinute - a.profitPerMinute is positive:
\* b has to come before a
comesAfter(a, b) == ppmLess(a, b)

\* position at which t enters the sorted sequence s: behind every element
\* that the comparator does not put after t
RECURSIVE insertSorted(_, _)
insertSorted(s, t) ==
    IF s = << >> THEN <<t>>
    ELSE IF comesAfter(Head(s), t) THEN <<t>> \o s
    ELSE <<Head(s)>> \o insertSorted(Tail(s), t)

\* Array.prototype.sort: a stable sort by the comparator
RECURSIVE sortTasks(_)
sortTasks(s) ==
    IF s = << >> THEN << >>
    ELSE insertSorted(sortTasks(SubSeq(s, 1, Len(s) - 1)), s[Len(s)])

-----------------------------------------------------------------------------
(* Machine timelines and budget, lines 544-551 *)

machineNames(pool) == {pool[k].name : k \in 1..Len(pool)}

\* machines.reduce(...): one entry per machine name, a later machine of the
\* same name overwrites the entry of the earlier one
initialTimelines(pool) ==
    [n \in machineNames(pool) |-> [tasks |-> << >>, currentTime |-> 0]]

\* variant: settings.workHours ?? 8, the default only for a missing workHours
workMinutesZeroKept(s) ==
    (IF s.workHours = << >> THEN DefaultWorkHours ELSE s.workHours[1]) * MinutesPerHour

\* (settings.workHours || 8) * 60
workMinutes(s) ==
    (IF s.workHours = << >> \/ s.workHours[1] = 0
        THEN DefaultWorkHours
        ELSE s.workHours[1]) * MinutesPerHour

totalWorkMinutes == workMinutes(settings)

-----------------------------------------------------------------------------
(* Machine selection, lines 554-565 *)

\* state of the scan before any allowed machine is looked at:
\* bestMachine = null, earliestFinishTime = Infinity
noBest == [bestMachine |-> << >>, earliestFinishTime |-> << >>]

\* variant: finishTime <= earliestFinishTime
finishesBeforeOrAt(finishTime, earliestFinishTime) ==
    \/ earliestFinishTime = << >>
    \/ finishTime <= earliestFinishTime[1]

\* finishTime < earliestFinishTime, where << >> stands for Infinity
finishesBefore(finishTime, earliestFinishTime) ==
    \/ earliestFinishTime = << >>
    \/ finishTime < earliestFinishTime[1]

\* one turn of the loop over task.allowedMachines
scanMachine(best, machineName, task, timelines) ==
    IF machineName \in DOMAIN timelines
        /\ finishesBefore(timelines[machineName].currentTime + task.buildTime,
                          best.earliestFinishTime)
    THEN [bestMachine        |-> <<machineName>>,
          earliestFinishTime |-> <<timelines[machineName].currentTime + task.buildTime>>]
    ELSE best

RECURSIVE scanFrom(_, _, _, _)
scanFrom(best, k, task, timelines) ==
    IF k > Len(task.allowedMachines) THEN best
    ELSE scanFrom(scanMachine(best, task.allowedMachines[k], task, timelines),
                  k + 1, task, timelines)

\* variant: an empty allowedMachines list stands for every machine of the pool
selectMachineAnyIfEmpty(task, timelines) ==
    IF task.allowedMachines = << >> /\ DOMAIN timelines # {}
    THEN LET m == CHOOSE n \in DOMAIN timelines :
                    \A o \in DOMAIN timelines :
                        timelines[n].currentTime <= timelines[o].currentTime
         IN [bestMachine        |-> <<m>>,
             earliestFinishTime |-> <<timelines[m].currentTime + task.buildTime>>]
    ELSE scanFrom(noBest, 1, task, timelines)

selectMachine(task, timelines) == scanFrom(noBest, 1, task, timelines)

\* variant: bestMachine && earliestFinishTime < totalWorkMinutes
fitsStrictly(best, budget) ==
    /\ best.bestMachine # << >>
    /\ best.earliestFinishTime[1] < budget

\* bestMachine && earliestFinishTime <= totalWorkMinutes
fits(best, budget) ==
    /\ best.bestMachine # << >>
    /\ best.earliestFinishTime[1] <= budget

\* variant: the task list of the machine is replaced, not extended
placeTaskOverwriting(timelines, best, task) ==
    LET m == best.bestMachine[1] IN
    [timelines EXCEPT ![m] =
        [tasks |-> <<[id              |-> task.id,
                      name            |-> task.name,
                      buildTime       |-> task.buildTime,
                      profit          |-> task.profit,
                      profitPerMinute |-> task.profitPerMinute,
                      allowedMachines |-> task.allowedMachines,
                      startTime       |-> timelines[m].currentTime,
                      endTime         |-> best.earliestFinishTime[1]]>>,
         currentTime |-> best.earliestFinishTime[1]]]

\* variant: startTime read after currentTime was advanced
placeTaskLateStart(timelines, best, task) ==
    LET m == best.bestMachine[1] IN
    [timelines EXCEPT ![m] =
        [tasks |-> Append(timelines[m].tasks,
                          [id              |-> task.id,
                           name            |-> task.name,
                           buildTime       |-> task.buildTime,
                           profit          |-> task.profit,
                           profitPerMinute |-> task.profitPerMinute,
                           allowedMachines |-> task.allowedMachines,
                           startTime       |-> best.earliestFinishTime[1],
                           endTime         |-> best.earliestFinishTime[1]]),
         currentTime |-> best.earliestFinishTime[1]]]

\* lines 568-570
placeTask(timelines, best, task) ==
    LET m == best.bestMachine[1] IN
    [timelines EXCEPT ![m] =
        [tasks |-> Append(timelines[m].tasks,
                          [id              |-> task.id,
                           name            |-> task.name,
                           buildTime       |-> task.buildTime,
                           profit          |-> task.profit,
                           profitPerMinute |-> task.profitPerMinute,
                           allowedMachines |-> task.allowedMachines,
                           startTime       |-> timelines[m].currentTime,
                           endTime         |-> best.earliestFinishTime[1]]),
         currentTime |-> best.earliestFinishTime[1]]]

\* variant: only a gain is added
addProfitIfPositive(total, task) ==
    IF task.profit > 0 THEN total + task.profit ELSE total

\* line 571
addProfit(total, task) == total + task.profit

-----------------------------------------------------------------------------
(* The scheduleData computation, lines 521-577 *)

\* !scheduleOrders || items.length === 0 || machines.length === 0
\* (an empty array is truthy)
noSchedule(orders, catalog, pool) ==
    \/ orders = << >>
    \/ Len(catalog) = 0
    \/ Len(pool) = 0

\* lines 522-524
ReturnNull ==
    /\ pc = "start"
    /\ noSchedule(scheduleOrders, items, machines)
    /\ scheduleData' = << >>
    /\ shown' = (IF shown = << >> THEN <<scheduleData'>> ELSE shown)
    /\ pc' = "done"
    /\ UNCHANGED <<inputs, app, allTasks, taskIndex, machineTimelines, totalProfit,
                   overflowTasks>>

\* variant: totalProfit lives outside the callback and is not set to 0
PrepareKeepingProfit ==
    /\ pc = "start"
    /\ ~noSchedule(scheduleOrders, items, machines)
    /\ allTasks' = sortTasks(expandTasks(scheduleOrders[1], items))
    /\ machineTimelines' = initialTimelines(machines)
    /\ overflowTasks' = << >>
    /\ taskIndex' = 0
    /\ pc' = "loop"
    /\ UNCHANGED <<inputs, app, shown, scheduleData, totalProfit>>

\* lines 526-551
Prepare ==
    /\ pc = "start"
    /\ ~noSchedule(scheduleOrders, items, machines)
    /\ allTasks' = sortTasks(expandTasks(scheduleOrders[1], items))
    /\ machineTimelines' = initialTimelines(machines)
    /\ totalProfit' = 0
    /\ overflowTasks' = << >>
    /\ taskIndex' = 0
    /\ pc' = "loop"
    /\ UNCHANGED <<inputs, app, shown, scheduleData>>

\* lines 553-571, the task fits
AssignTask ==
    /\ pc = "loop"
    /\ taskIndex < Len(allTasks)
    /\ LET task == allTasks[taskIndex + 1]
           best == selectMachine(task, machineTimelines)
       IN /\ fits(best, totalWorkMinutes)
          /\ machineTimelines' = placeTask(machineTimelines, best, task)
          /\ totalProfit' = addProfit(totalProfit, task)
    /\ taskIndex' = taskIndex + 1
    /\ UNCHANGED <<inputs, app, shown, pc, allTasks, overflowTasks, scheduleData>>

\* lines 553-566 and 572-574, the task does not fit
OverflowTask ==
    /\ pc = "loop"
    /\ taskIndex < Len(allTasks)
    /\ LET task == allTasks[taskIndex + 1]
           best == selectMachine(task, machineTimelines)
       IN /\ ~fits(best, totalWorkMinutes)
          /\ overflowTasks' = Append(overflowTasks, task)
    /\ taskIndex' = taskIndex + 1
    /\ UNCHANGED <<inputs, app, shown, pc, allTasks, machineTimelines, totalProfit,
                   scheduleData>>

\* line 576
ReturnSchedule ==
    /\ pc = "loop"
    /\ taskIndex = Len(allTasks)
    /\ scheduleData' = <<[schedule      |-> machineTimelines,
                          totalProfit   |-> totalProfit,
                          overflowTasks |-> overflowTasks]>>
    /\ shown' = (IF shown = << >> THEN <<scheduleData'>> ELSE shown)
    /\ pc' = "done"
    /\ UNCHANGED <<inputs, app, allTasks, taskIndex, machineTimelines, totalProfit,
                   overflowTasks>>

-----------------------------------------------------------------------------
(* Overflow aggregation, lines 579-590 *)

\* variant: acc[task.name] = 1, the count is set instead of raised
countNameOnce(acc, name) ==
    [n \in (DOMAIN acc) \cup {name} |-> IF n = name THEN 1 ELSE acc[n]]

\* acc[task.name] = (acc[task.name] || 0) + 1
countName(acc, name) ==
    [n \in (DOMAIN acc) \cup {name} |->
        IF n = name
            THEN (IF n \in DOMAIN acc THEN acc[n] ELSE 0) + 1
            ELSE acc[n]]

\* overflowTasks.reduce(..., {}) of line 582
RECURSIVE countNames(_, _)
countNames(tasks, acc) ==
    IF tasks = << >> THEN acc
    ELSE countNames(Tail(tasks), countName(acc, Head(tasks).name))

\* overflowTasks.reduce((sum, task) => sum + task.profit, 0)
RECURSIVE missedProfit(_, _)
missedProfit(tasks, sum) ==
    IF tasks = << >> THEN sum
    ELSE missedProfit(Tail(tasks), sum + Head(tasks).profit)

\* the empty object {}
emptyObject == [n \in {} |-> 0]

\* useMemo of lines 579-590 on the value of scheduleData (<< >> is null)
aggregatedOverflow(result) ==
    IF result = << >>
    THEN [items |-> emptyObject, totalProfit |-> 0]
    ELSE [items       |-> countNames(result[1].overflowTasks, emptyObject),
          totalProfit |-> missedProfit(result[1].overflowTasks, 0)]

-----------------------------------------------------------------------------
(* Inputs of the computation *)

machineA == [id |-> "m1", name |-> "A"]
machineB == [id |-> "m2", name |-> "B"]
machineA2 == [id |-> "m3", name |-> "A"]

\* machine pools: empty, two machines, two machines of one name
MachinePools ==
    {<< >>, <<machineA, machineB>>, <<machineA, machineA2>>}

\* allowedMachines of an item: none, one name, two names
AllowedLists == {<< >>, <<"B">>, <<"B", "A">>}

ItemIdOf == <<"i1", "i2">>

ItemNameOf == <<"Widget", "Gadget">>

\* form fields buildTime, price, cost: 240 minutes at a profit of 30 (empty
\* cost), 100 minutes at a profit of -10
Products == {<< <<240>>, <<30>>, << >> >>, << <<100>>, <<10>>, <<20>> >>}

\* catalogue entries without id: schedulable ones, and ones whose buildTime is
\* missing, zero or negative
ValidEntries ==
    {[buildTime |-> p[1], price |-> p[2], cost |-> p[3], allowedMachines |-> a] :
        p \in Products, a \in AllowedLists}

InvalidEntries ==
    {[buildTime |-> b, price |-> <<30>>, cost |-> << >>, allowedMachines |-> <<"A", "B">>] :
        b \in {<< >>, <<0>>, <<-60>>}}

Entries == ValidEntries \cup InvalidEntries

withId(entry, k) ==
    [id              |-> ItemIdOf[k],
     name            |-> ItemNameOf[k],
     buildTime       |-> entry.buildTime,
     price           |-> entry.price,
     cost            |-> entry.cost,
     allowedMachines |-> entry.allowedMachines]

Catalogs ==
    {<< >>}
    \cup {<<withId(e, 1)>> : e \in Entries}
    \cup {<<withId(e1, 1), withId(e2, 2)>> : e1 \in Entries, e2 \in Entries}

Orders ==
    {[id |-> <<"order", ItemIdOf[k]>>, itemId |-> ItemIdOf[k], itemName |-> ItemNameOf[k],
      quantity |-> q] : k \in 1..2, q \in 1..MaxQty}

OrderLists == UNION {[1..n -> Orders] : n \in 0..MaxOrders}

WorkHoursValues == {<<0>>, <<-1>>}

\* the data of App that hands ScheduleView these props (lines 137-143), as
\* storage.load() parses it from the browser's storage (lines 11-13)
storedData ==
    [items    |-> items,
     machines |-> machines,
     orders   |-> IF scheduleOrders = << >> THEN << >> ELSE scheduleOrders[1],
     schedule |-> IF scheduleOrders = << >> THEN << >>
                  ELSE <<[orders |-> scheduleOrders[1], generatedAt |-> 0]>>,
     settings |-> settings]

\* ScheduleView is about to compute scheduleData for the first time
idle ==
    /\ pc = "start"
    /\ allTasks = << >>
    /\ taskIndex = 0
    /\ machineTimelines = << >>
    /\ totalProfit = 0
    /\ overflowTasks = << >>
    /\ scheduleData = << >>
    /\ shown = << >>
    /\ clock = 0
    /\ data = storedData

InitBounded ==
    /\ scheduleOrders \in {<< >>} \cup {<<o>> : o \in OrderLists}
    /\ items \in Catalogs
    /\ machines \in MachinePools
    /\ settings \in {[workHours |-> h, workdayStartHour |-> <<9>>] : h \in WorkHoursValues}
    /\ idle

\* sample scenario B of the specification
InitScenarioB ==
    /\ scheduleOrders = << <<[id |-> <<"order", "i1">>, itemId |-> "i1",
                              itemName |-> "Widget", quantity |-> 5]>> >>
    /\ items = <<[id |-> "i1", name |-> "Widget", buildTime |-> <<100>>,
                  price |-> <<30>>, cost |-> << >>, allowedMachines |-> <<"A", "B">>]>>
    /\ machines = <<machineA, machineB>>
    /\ settings = [workHours |-> <<8>>, workdayStartHour |-> <<9>>]
    /\ idle

machineLaserCutter == [id |-> "default-machine-1", name |-> "Laser Cutter"]

\* sample scenario A of the specification
InitScenarioA ==
    /\ scheduleOrders = << <<[id |-> <<"order", "i1">>, itemId |-> "i1",
                              itemName |-> "Widget", quantity |-> 10]>> >>
    /\ items = <<[id |-> "i1", name |-> "Widget", buildTime |-> <<60>>,
                  price |-> <<30>>, cost |-> <<20>>,
                  allowedMachines |-> <<"Laser Cutter">>]>>
    /\ machines = <<machineLaserCutter>>
    /\ settings = [workHours |-> <<8>>, workdayStartHour |-> <<9>>]
    /\ idle

\* two catalogue items of one name, an order for each
InitSharedName ==
    /\ \E q1 \in 1..MaxQty, q2 \in 1..MaxQty :
        scheduleOrders =
            << <<[id |-> <<"order", "i1">>, itemId |-> "i1", itemName |-> "Widget",
                  quantity |-> q1],
                 [id |-> <<"order", "i2">>, itemId |-> "i2", itemName |-> "Widget",
                  quantity |-> q2]>> >>
    /\ \E e1 \in ValidEntries, e2 \in ValidEntries :
        items = <<[withId(e1, 1) EXCEPT !.name = "Widget"],
                  [withId(e2, 2) EXCEPT !.name = "Widget"]>>
    /\ machines \in MachinePools
    /\ settings \in {[workHours |-> h, workdayStartHour |-> <<9>>] : h \in WorkHoursValues}
    /\ idle

Init == InitBounded \/ InitScenarioB \/ InitScenarioA \/ InitSharedName

Next ==
    \/ ReturnNull
    \/ Prepare
    \/ AssignTask
    \/ OverflowTask
    \/ ReturnSchedule

Spec == Init /\ [][Next]_vars

-----------------------------------------------------------------------------
(* The App around the computation: state data and the handlers that set it *)

\* ids made from Date.now() (lines 221, 368, 433) are handed out up to this value
MaxClock == 3

\* lines 19-25
defaultData ==
    [items    |-> << >>,
     machines |-> <<machineLaserCutter>>,
     orders   |-> << >>,
     schedule |-> << >>,
     settings |-> [workHours |-> <<8>>, workdayStartHour |-> <<9>>]]

\* variant: a change of the catalogue drops the saved schedule
handleSetItemsDroppingSchedule(prev, newItems) ==
    [prev EXCEPT !.items = newItems, !.schedule = << >>]

\* line 106
handleSetItems(prev, newItems) == [prev EXCEPT !.items = newItems]

\* line 107
handleSetMachines(prev, newMachines) == [prev EXCEPT !.machines = newMachines]

\* variant: the schedule outlives a change of the orders
handleSetOrdersKeepingSchedule(prev, newOrders) == [prev EXCEPT !.orders = newOrders]

\* line 108
handleSetOrders(prev, newOrders) ==
    [prev EXCEPT !.orders = newOrders, !.schedule = << >>]

\* line 109
handleSetSchedule(prev, newSchedule) == [prev EXCEPT !.schedule = <<newSchedule>>]

\* line 110
handleSetSettings(prev, newSettings) == [prev EXCEPT !.settings = newSettings]

\* data.schedule?.orders, line 138
scheduleProp(d) ==
    IF d.schedule = << >> THEN << >> ELSE <<d.schedule[1].orders>>

\* setData(d): App renders again and ScheduleView gets its props from d
\* (lines 137-143); the callback of useMemo starts afresh on them. first is
\* the value of the history variable shown.
setData(d, first) ==
    /\ data' = d
    /\ scheduleOrders' = scheduleProp(d)
    /\ items' = d.items
    /\ machines' = d.machines
    /\ settings' = d.settings
    /\ pc' = "start"
    /\ allTasks' = << >>
    /\ taskIndex' = 0
    /\ machineTimelines' = << >>
    /\ totalProfit' = 0
    /\ overflowTasks' = << >>
    /\ scheduleData' = << >>
    /\ shown' = first

\* what is typed into the name field of the machine form
MachineNameInputs == {"  ", " B ", "Laser Cutter"}

\* String.prototype.trim on those inputs
trim(str) ==
    CASE str = "  " -> ""
      [] str = " B " -> "B"
      [] OTHER -> str

\* lines 365-371
handleAddMachine ==
    /\ pc = "done"
    /\ clock < MaxClock
    /\ \E newMachineName \in MachineNameInputs :
        IF trim(newMachineName) = ""
            THEN UNCHANGED vars
            ELSE LET newMachine == [id   |-> "machine-" \o ToString(clock),
                                    name |-> trim(newMachineName)] IN
                /\ setData(handleSetMachines(data, Append(data.machines, newMachine)), shown)
                /\ clock' = clock + 1

\* lines 378-384, machineToDelete being the id of a machine of the list (line 373)
handleDeleteMachine ==
    /\ pc = "done"
    /\ \E k \in 1..Len(data.machines) :
        LET machineToDelete == data.machines[k].id
            updatedMachines == SelectSeq(data.machines, LAMBDA m : m.id # machineToDelete) IN
        /\ setData(handleSetMachines(data, updatedMachines), shown)
        /\ UNCHANGED clock


\* what is typed into the fields of the item form (lines 331-335), "" being << >>
ItemFields ==
    {[name |-> "Widget", buildTime |-> <<240>>, price |-> <<30>>, cost |-> <<10>>],
     [name |-> "Gadget", buildTime |-> <<300>>, price |-> <<10>>, cost |-> <<20>>],
     [name |-> "Widget", buildTime |-> << >>, price |-> <<30>>, cost |-> <<10>>]}

\* allowedMachines after the toggles of lines 304-311: none, or one of the
\* machines the form shows (lines 339-348)
AllowedChoices(pool) == {<< >>} \cup {<<pool[k].name>> : k \in 1..Len(pool)}

\* the checks of handleSubmit, lines 315-322
rejectsForm(formData) ==
    \/ formData.name = ""
    \/ formData.buildTime = << >>
    \/ formData.price = << >>
    \/ formData.cost = << >>
    \/ Len(formData.allowedMachines) = 0

\* { ...i, ...itemData }, line 218
mergeItem(i, itemData) ==
    [id              |-> i.id,
     name            |-> itemData.name,
     buildTime       |-> itemData.buildTime,
     price           |-> itemData.price,
     cost            |-> itemData.cost,
     allowedMachines |-> itemData.allowedMachines]

\* ItemForm.handleSubmit (lines 313-324) and ItemLibrary.handleSaveItem
\* (lines 215-227); editing = 0 is the form of a new item, editing = k the
\* form opened on items[k] (line 242)
handleSaveItem ==
    /\ pc = "done"
    /\ \E editing \in 0..Len(data.items), f \in ItemFields, a \in AllowedChoices(data.machines) :
        LET formData == [name |-> f.name, buildTime |-> f.buildTime, price |-> f.price,
                         cost |-> f.cost, allowedMachines |-> a] IN
        IF rejectsForm(formData)
            THEN UNCHANGED vars
            ELSE IF editing # 0
                THEN LET updatedItems ==
                             [k \in 1..Len(data.items) |->
                                 IF data.items[k].id = data.items[editing].id
                                     THEN mergeItem(data.items[k], formData)
                                     ELSE data.items[k]] IN
                    /\ setData(handleSetItems(data, updatedItems), shown)
                    /\ UNCHANGED clock
                ELSE LET newItem == mergeItem([id |-> "item-" \o ToString(clock)], formData) IN
                    /\ clock < MaxClock
                    /\ setData(handleSetItems(data, Append(data.items, newItem)), shown)
                    /\ clock' = clock + 1

\* lines 234-240, itemToDelete being the id of an item of the list (line 229)
handleDeleteItem ==
    /\ pc = "done"
    /\ \E k \in 1..Len(data.items) :
        LET itemToDelete == data.items[k].id
            updatedItems == SelectSeq(data.items, LAMBDA i : i.id # itemToDelete) IN
        /\ setData(handleSetItems(data, updatedItems), shown)
        /\ UNCHANGED clock

\* what the quantity field holds, in tenths: 0, 0.5 and 2
QuantityInputs == {0, 5, 20}

\* parseInt(quantity, 10) of a quantity given in tenths
parseIntTenths(tenths) == tenths \div 10

\* lines 426-443; selectedItem is "" or the id of an option of the select
\* (line 459)
handleAddOrder ==
    /\ pc = "done"
    /\ clock < MaxClock
    /\ \E selectedItem \in {""} \cup {data.items[k].id : k \in 1..Len(data.items)},
          quantity \in QuantityInputs :
        IF selectedItem = "" \/ quantity <= 0 \/ find(data.items, selectedItem) = 0
            THEN UNCHANGED vars
            ELSE LET itemDetails == data.items[find(data.items, selectedItem)]
                     newOrder == [id       |-> "order-" \o selectedItem \o "-" \o ToString(clock),
                                  itemId   |-> selectedItem,
                                  itemName |-> itemDetails.name,
                                  quantity |-> parseIntTenths(quantity),
                                  profit   |-> itemDetails.price[1] - itemDetails.cost[1]] IN
                /\ setData(handleSetOrders(data, Append(data.orders, newOrder)), << >>)
                /\ clock' = clock + 1

\* lines 445-448; the button is disabled while there are no orders (line 476)
handleGenerateSchedule ==
    /\ pc = "done"
    /\ Len(data.orders) # 0
    /\ setData(handleSetSchedule(data, [orders |-> data.orders, generatedAt |-> clock]), << >>)
    /\ UNCHANGED clock

\* what onSetSettings is handed at line 680: a function, whose workHours and
\* workdayStartHour read undefined
settingsUpdater == [workHours |-> << >>, workdayStartHour |-> << >>]

\* Settings.handleInputChange, lines 675-681; value is what the field holds,
\* << >> when parseInt makes NaN of it
handleInputChange ==
    /\ pc = "done"
    /\ \E name \in {"workHours", "workdayStartHour"}, value \in {<< >>, <<6>>} :
        IF value = << >>
            THEN UNCHANGED vars
            ELSE /\ setData(handleSetSettings(data, settingsUpdater), shown)
                 /\ UNCHANGED clock

\* lines 112-115: the stored data is removed and the page loaded again
handleClearData ==
    /\ pc = "done"
    /\ setData(defaultData, << >>)
    /\ UNCHANGED clock

InitApp ==
    /\ scheduleOrders = << >>
    /\ items = << >>
    /\ machines = <<machineLaserCutter>>
    /\ settings = [workHours |-> <<8>>, workdayStartHour |-> <<9>>]
    /\ idle

NextApp ==
    \/ ReturnNull
    \/ Prepare
    \/ AssignTask
    \/ OverflowTask
    \/ ReturnSchedule
    \/ handleAddMachine
    \/ handleDeleteMachine
    \/ handleSaveItem
    \/ handleDeleteItem
    \/ handleAddOrder
    \/ handleGenerateSchedule
    \/ handleInputChange
    \/ handleClearData

SpecApp == InitApp /\ [][NextApp]_vars

-----------------------------------------------------------------------------
(* A second computation on the same props *)

\* ScheduleView is mounted again with the props it had (renderContent,
\* lines 117-152, mounts it whenever its tab is chosen) and useMemo runs the
\* callback of lines 521-577 once more; what the run before left behind is
\* still there
Rerender ==
    /\ pc = "done"
    /\ pc' = "start"
    /\ UNCHANGED <<inputs, app, shown, locals, scheduleData>>

NextRerender ==
    \/ ReturnNull
    \/ Prepare
    \/ AssignTask
    \/ OverflowTask
    \/ ReturnSchedule
    \/ Rerender

SpecRerender == Init /\ [][NextRerender]_vars

-----------------------------------------------------------------------------
(* Vocabulary of the properties *)

started == pc \in {"loop", "done"} /\ ~noSchedule(scheduleOrders, items, machines)

finished == pc = "done" /\ scheduleData # << >>

timelineNames == DOMAIN machineTimelines

\* <<startTime, endTime>> of the tasks of one machine
slots(n) ==
    [k \in 1..Len(machineTimelines[n].tasks) |->
        <<machineTimelines[n].tasks[k].startTime, machineTimelines[n].tasks[k].endTime>>]

\* a placed task without its slot
asTask(placed) ==
    [id              |-> placed.id,
     name            |-> placed.name,
     buildTime       |-> placed.buildTime,
     profit          |-> placed.profit,
     profitPerMinute |-> placed.profitPerMinute,
     allowedMachines |-> placed.allowedMachines]

RECURSIVE sumOver(_, _)
sumOver(f, S) ==
    IF S = {} THEN 0
    ELSE LET x == CHOOSE y \in S : TRUE IN f[x] + sumOver(f, S \ {x})

assignedCount == sumOver([n \in timelineNames |-> Len(machineTimelines[n].tasks)], timelineNames)

processedTasks == SubSeq(allTasks, 1, taskIndex)

occurrences(seq, t) == Cardinality({k \in 1..Len(seq) : seq[k] = t})

assignedOccurrences(t) ==
    sumOver([n \in timelineNames |->
                Cardinality({k \in 1..Len(machineTimelines[n].tasks) :
                                asTask(machineTimelines[n].tasks[k]) = t})],
            timelineNames)

eligibleMachines(task) ==
    {task.allowedMachines[k] : k \in 1..Len(task.allowedMachines)} \cap timelineNames

isScenarioB ==
    /\ scheduleOrders # << >>
    /\ Len(scheduleOrders[1]) = 1
    /\ scheduleOrders[1][1].quantity = 5
    /\ scheduleOrders[1][1].itemId = "i1"
    /\ Len(items) = 1
    /\ items[1].buildTime = <<100>>
    /\ items[1].allowedMachines = <<"A", "B">>
    /\ machines = <<machineA, machineB>>
    /\ settings.workHours = <<8>>

-----------------------------------------------------------------------------
(* C1 *)

\* C1 as stated: in sample scenario B (pool [A, B], one item of buildTime 100
\* allowed on [A, B], one order of 5 units, workHours 8) the finished schedule
\* has four units on A at 0-100, 100-200, 200-300, 300-400 and the fifth on B
\* at 0-100, with no overflow.
C1_ScenarioB_AsStated ==
    (isScenarioB /\ finished) =>
        /\ slots("A") = << <<0, 100>>, <<100, 200>>, <<200, 300>>, <<300, 400>> >>
        /\ slots("B") = << <<0, 100>> >>
        /\ overflowTasks = << >>

\* C1 amended: in sample scenario B the units alternate between the machines,
\* A first on a tie: A holds three units at 0-100, 100-200, 200-300 and B two
\* units at 0-100, 100-200; nothing overflows and totalProfit is 5 * 30.
C1_ScenarioB ==
    (isScenarioB /\ finished) =>
        /\ slots("A") = << <<0, 100>>, <<100, 200>>, <<200, 300>> >>
        /\ slots("B") = << <<0, 100>>, <<100, 200>> >>
        /\ overflowTasks = << >>
        /\ scheduleData[1].schedule = machineTimelines
        /\ scheduleData[1].totalProfit = 150

C1_Witness == isScenarioB /\ finished /\ assignedCount = 5

-----------------------------------------------------------------------------
(* C2 *)

\* C2: whenever orders, items or machines is an empty list (orders = [] passed
\* as scheduleOrders included), the computation returns null instead of a
\* result object.
C2_EmptyInputGivesNull ==
    (/\ pc = "done"
     /\ \/ scheduleOrders = << >>
        \/ scheduleOrders = << << >> >>
        \/ items = << >>
        \/ machines = << >>)
    => scheduleData = << >>

-----------------------------------------------------------------------------
(* C3 *)

C3_claimedBudget == settings.workHours[1] * 60

C3_budget ==
    IF settings.workHours = << >> \/ settings.workHours = <<0>>
        THEN 480
        ELSE settings.workHours[1] * 60

allOverflowed ==
    /\ overflowTasks = processedTasks
    /\ \A n \in timelineNames :
        machineTimelines[n] = [tasks |-> << >>, currentTime |-> 0]

\* what a budget b shows of itself in a state: no placed task ends after b, and
\* no overflow task would still fit within b on one of its machines
budgetObserved(b) ==
    /\ \A n \in timelineNames : \A k \in 1..Len(machineTimelines[n].tasks) :
        machineTimelines[n].tasks[k].endTime <= b
    /\ \A k \in 1..Len(overflowTasks) : \A n \in eligibleMachines(overflowTasks[k]) :
        machineTimelines[n].currentTime + overflowTasks[k].buildTime > b

\* C3 as stated: the budget is workHours * 60 for every numeric workHours, so
\* with workHours * 60 <= 0, workHours = 0 included, every task overflows and
\* every timeline stays empty with currentTime 0.
C3_NonPositiveHours_AsStated ==
    (started /\ settings.workHours # << >>) =>
        /\ budgetObserved(C3_claimedBudget)
        /\ (C3_claimedBudget <= 0 => allOverflowed)

\* C3 amended: the budget is workHours * 60 for every non-zero numeric
\* workHours and 8 * 60 = 480 when workHours is 0 (or missing); whenever that
\* budget is <= 0, which takes a negative workHours, every task overflows and
\* every timeline stays empty with currentTime 0.
C3_NonPositiveBudget ==
    started =>
        /\ budgetObserved(C3_budget)
        /\ (C3_budget <= 0 => allOverflowed)

C3_Witness ==
    /\ finished
    /\ settings.workHours = <<-1>>
    /\ Len(overflowTasks) >= 2
    /\ \E k \in 1..Len(overflowTasks) : eligibleMachines(overflowTasks[k]) # {}

-----------------------------------------------------------------------------
(* C4 *)

hasPositiveBuildTime(order) ==
    \E j \in 1..Len(items) :
        /\ items[j].id = order.itemId
        /\ items[j].buildTime # << >>
        /\ items[j].buildTime[1] > 0

schedulableQuantity ==
    LET orders == scheduleOrders[1] IN
    sumOver([k \in 1..Len(orders) |->
                IF hasPositiveBuildTime(orders[k]) THEN orders[k].quantity ELSE 0],
            1..Len(orders))

\* C4: after every prefix of the loop the tasks in the machine timelines plus
\* the overflow tasks are exactly the tasks processed, each as often as it was
\* processed; when the loop is over their number is the sum of quantity over
\* the orders whose item is in the catalogue with buildTime > 0.  Two pool
\* machines of one name change nothing.
C4_Conservation ==
    started =>
        /\ assignedCount + Len(overflowTasks) = taskIndex
        /\ \A k \in 1..Len(allTasks) :
            assignedOccurrences(allTasks[k]) + occurrences(overflowTasks, allTasks[k])
                = occurrences(processedTasks, allTasks[k])
        /\ (pc = "done" => taskIndex = schedulableQuantity)

C4_Witness ==
    /\ finished
    /\ machines = <<machineA, machineA2>>
    /\ assignedCount >= 2
    /\ Len(overflowTasks) >= 1
    /\ Len(scheduleOrders[1]) = 2

-----------------------------------------------------------------------------
(* C5 *)

withinBudget(limit) ==
    \A n \in timelineNames :
        /\ machineTimelines[n].currentTime <= limit
        /\ \A k \in 1..Len(machineTimelines[n].tasks) :
            machineTimelines[n].tasks[k].endTime <= totalWorkMinutes

\* C5 as stated: in every state during and after allocation every assigned task
\* has endTime <= totalWorkMinutes and every machine has
\* currentTime <= totalWorkMinutes.
C5_Budget_AsStated == started => withinBudget(totalWorkMinutes)

\* the next task of the loop finishes exactly at the budget on its best machine
nextTaskFitsExactly ==
    /\ pc = "loop"
    /\ taskIndex < Len(allTasks)
    /\ LET task == allTasks[taskIndex + 1]
           finishTimes == {machineTimelines[n].currentTime + task.buildTime :
                              n \in eligibleMachines(task)}
       IN /\ totalWorkMinutes \in finishTimes
          /\ \A f \in finishTimes : f >= totalWorkMinutes

\* C5 amended: in every state during and after allocation every assigned task
\* has endTime <= totalWorkMinutes and every machine has
\* currentTime <= max(totalWorkMinutes, 0): a machine without tasks keeps
\* currentTime 0, also under a negative budget.  A task whose finish time is
\* exactly the budget is assigned, not overflowed.
C5_Budget ==
    /\ [](started => withinBudget(IF totalWorkMinutes < 0 THEN 0 ELSE totalWorkMinutes))
    /\ [][nextTaskFitsExactly =>
            (assignedCount' = assignedCount + 1 /\ overflowTasks' = overflowTasks)]_vars

C5_Witness ==
    /\ finished
    /\ \E n \in timelineNames :
        /\ Len(machineTimelines[n].tasks) = 2
        /\ machineTimelines[n].currentTime = totalWorkMinutes
    /\ Len(overflowTasks) >= 1

-----------------------------------------------------------------------------
(* C6 *)

contiguous(timeline) ==
    /\ \A k \in 1..Len(timeline.tasks) :
        /\ timeline.tasks[k].startTime =
            (IF k = 1 THEN 0 ELSE timeline.tasks[k - 1].endTime)
        /\ timeline.tasks[k].endTime =
            timeline.tasks[k].startTime + timeline.tasks[k].buildTime
    /\ timeline.currentTime =
        (IF timeline.tasks = << >> THEN 0
         ELSE timeline.tasks[Len(timeline.tasks)].endTime)

\* C6: in every machine timeline the first task starts at 0, every later task
\* starts where the one before it ends, every task ends buildTime after its
\* start, and currentTime is the end of the last task (0 without tasks);
\* currentTime never decreases during a run.
C6_Contiguity ==
    /\ [](started => \A n \in timelineNames : contiguous(machineTimelines[n]))
    /\ [][\A n \in timelineNames :
            /\ n \in DOMAIN machineTimelines'
            /\ machineTimelines'[n].currentTime >= machineTimelines[n].currentTime]_vars

C6_Witness ==
    /\ finished
    /\ \E n \in timelineNames :
        /\ Len(machineTimelines[n].tasks) >= 3
        /\ machineTimelines[n].tasks[1].buildTime # machineTimelines[n].tasks[3].buildTime
    /\ \E n \in timelineNames : machineTimelines[n].tasks = << >>

-----------------------------------------------------------------------------
(* C7 *)

RECURSIVE profitSum(_)
profitSum(tasks) ==
    IF tasks = << >> THEN 0 ELSE Head(tasks).profit + profitSum(Tail(tasks))

assignedProfit ==
    sumOver([n \in timelineNames |-> profitSum(machineTimelines[n].tasks)], timelineNames)

\* C7: after every prefix of the loop totalProfit is the sum of profit over the
\* tasks in the machine timelines, tasks of negative profit included; overflow
\* tasks add nothing.
C7_ProfitAdditivity ==
    /\ started => totalProfit = assignedProfit
    /\ finished => scheduleData[1].totalProfit = assignedProfit

C7_Witness ==
    /\ finished
    /\ \E n \in timelineNames : \E k \in 1..Len(machineTimelines[n].tasks) :
        machineTimelines[n].tasks[k].profit < 0
    /\ \E k \in 1..Len(overflowTasks) : overflowTasks[k].profit # 0

-----------------------------------------------------------------------------
(* C8 *)

expandedTasks == expandTasks(scheduleOrders[1], items)

sameRank(seq, t) ==
    LET ties(x) == ppmEqual(x, t) IN SelectSeq(seq, ties)

lastPlaced(n) == machineTimelines[n].tasks[Len(machineTimelines[n].tasks)]

\* C8: the ranked sequence has non-increasing profitPerMinute, the tasks of one
\* profitPerMinute stand in it in their expansion order (order by order, unit
\* by unit), and every turn of the loop deals with the next task of that
\* sequence.
C8_RankingStable ==
    /\ [](started =>
            LET expanded == expandedTasks IN
            /\ \A k \in 1..(Len(allTasks) - 1) : ~ppmLess(allTasks[k], allTasks[k + 1])
            /\ Len(allTasks) = Len(expanded)
            /\ \A k \in 1..Len(expanded) :
                sameRank(allTasks, expanded[k]) = sameRank(expanded, expanded[k]))
    /\ [][(pc = "loop" /\ taskIndex' # taskIndex) =>
            /\ taskIndex' = taskIndex + 1
            /\ \/ overflowTasks' = Append(overflowTasks, allTasks[taskIndex + 1])
               \/ \E n \in timelineNames :
                    /\ Len(machineTimelines'[n].tasks) = Len(machineTimelines[n].tasks) + 1
                    /\ asTask(lastPlaced(n)') = allTasks[taskIndex + 1]]_vars

C8_Witness ==
    /\ finished
    /\ Len(allTasks) >= 3
    /\ allTasks # expandedTasks
    /\ \E k \in 1..Len(allTasks) : \E l \in (k + 1)..Len(allTasks) :
        /\ ppmEqual(allTasks[k], allTasks[l])
        /\ allTasks[k] # allTasks[l]

-----------------------------------------------------------------------------
(* C9 *)

orderItemIds == {scheduleOrders[1][k].itemId : k \in 1..Len(scheduleOrders[1])}

quantityOf(itemId) ==
    LET orders == scheduleOrders[1] IN
    sumOver([k \in 1..Len(orders) |->
                IF orders[k].itemId = itemId /\ hasPositiveBuildTime(orders[k])
                    THEN orders[k].quantity ELSE 0],
            1..Len(orders))

unitsOf(seq, itemId) == Cardinality({k \in 1..Len(seq) : seq[k].id[1] = itemId})

assignedUnitsOf(itemId) ==
    sumOver([n \in timelineNames |-> unitsOf(machineTimelines[n].tasks, itemId)],
            timelineNames)

\* C9: an order whose itemId is not in the catalogue, or whose item has
\* buildTime missing or <= 0, yields no task: the ranked tasks of an item, and
\* at the end its units in the timelines and in overflow, number the sum of
\* quantity over the other orders of that item.
C9_SilentDrop ==
    started =>
        \A itemId \in orderItemIds :
            /\ unitsOf(allTasks, itemId) = quantityOf(itemId)
            /\ (pc = "done" =>
                    /\ scheduleData # << >>
                    /\ assignedUnitsOf(itemId) + unitsOf(overflowTasks, itemId)
                        = quantityOf(itemId))

C9_Witness ==
    /\ finished
    /\ \E k \in 1..Len(scheduleOrders[1]) :
        /\ ~hasPositiveBuildTime(scheduleOrders[1][k])
        /\ find(items, scheduleOrders[1][k].itemId) # 0
    /\ \E k \in 1..Len(scheduleOrders[1]) :
        /\ hasPositiveBuildTime(scheduleOrders[1][k])
        /\ scheduleOrders[1][k].quantity = 2
    /\ taskIndex = 2

-----------------------------------------------------------------------------
(* C10 *)

\* C10: a task whose allowedMachines is empty, or holds no machine name of the
\* pool, goes to overflow in the turn that deals with it and leaves the
\* timelines alone, whatever the budget and the other machines; no such task
\* is ever in a timeline.
C10_NoEligibleMachine ==
    /\ [](started =>
            \A n \in timelineNames : \A k \in 1..Len(machineTimelines[n].tasks) :
                eligibleMachines(machineTimelines[n].tasks[k]) # {})
    /\ [][(/\ pc = "loop"
           /\ taskIndex < Len(allTasks)
           /\ eligibleMachines(allTasks[taskIndex + 1]) = {}) =>
            /\ overflowTasks' = Append(overflowTasks, allTasks[taskIndex + 1])
            /\ machineTimelines' = machineTimelines
            /\ totalProfit' = totalProfit]_vars

C10_Witness ==
    /\ finished
    /\ totalWorkMinutes = 480
    /\ \E k \in 1..Len(overflowTasks) : overflowTasks[k].allowedMachines = << >>
    /\ \E k \in 1..Len(overflowTasks) :
        /\ overflowTasks[k].allowedMachines # << >>
        /\ eligibleMachines(overflowTasks[k]) = {}

-----------------------------------------------------------------------------
(* C11 *)

isScenarioA ==
    /\ scheduleOrders # << >>
    /\ Len(scheduleOrders[1]) = 1
    /\ scheduleOrders[1][1].quantity = 10
    /\ Len(items) = 1
    /\ items[1].buildTime = <<60>>
    /\ itemProfit(items[1]) = 10
    /\ machines = <<machineLaserCutter>>
    /\ settings.workHours = <<8>>

\* C11: in sample scenario A (one machine "Laser Cutter", workHours 8, one item
\* of buildTime 60 and profit 10, one order of 10 units) eight units stand back
\* to back at 0-60, 60-120, ..., 420-480, totalProfit is 80, overflow holds two
\* units and the aggregated missed profit is 20.
C11_ScenarioA ==
    (isScenarioA /\ pc = "done") =>
        /\ scheduleData # << >>
        /\ DOMAIN scheduleData[1].schedule = {"Laser Cutter"}
        /\ LET placed == scheduleData[1].schedule["Laser Cutter"].tasks IN
            /\ Len(placed) = 8
            /\ \A k \in 1..8 :
                placed[k].startTime = 60 * (k - 1) /\ placed[k].endTime = 60 * k
        /\ scheduleData[1].totalProfit = 80
        /\ Len(scheduleData[1].overflowTasks) = 2
        /\ aggregatedOverflow(scheduleData).totalProfit = 20
        /\ aggregatedOverflow(scheduleData).items = [n \in {"Widget"} |-> 2]

C11_Witness == isScenarioA /\ finished /\ assignedCount = 8

-----------------------------------------------------------------------------
(* C14 *)

positionIn(list, name) == CHOOSE k \in 1..Len(list) : list[k] = name

\* the machine whose task list grows in this step
receives(n) ==
    Len(machineTimelines'[n].tasks) = Len(machineTimelines[n].tasks) + 1

\* C14: a task that is assigned goes to a machine that is in its
\* allowedMachines and in the pool and whose currentTime is the least among
\* those machines at that moment; among the machines that tie for the least it
\* is the one that stands first in the task's allowedMachines.
C14_MachineSelection ==
    [][(pc = "loop" /\ machineTimelines' # machineTimelines) =>
        LET task == allTasks[taskIndex + 1] IN
        \E n \in eligibleMachines(task) :
            /\ receives(n)
            /\ \A m \in timelineNames \ {n} : machineTimelines'[m] = machineTimelines[m]
            /\ \A m \in eligibleMachines(task) :
                /\ machineTimelines[n].currentTime <= machineTimelines[m].currentTime
                /\ (machineTimelines[n].currentTime = machineTimelines[m].currentTime
                    => positionIn(task.allowedMachines, n)
                        <= positionIn(task.allowedMachines, m))]_vars

C14_Witness ==
    /\ finished
    /\ machines = <<machineA, machineB>>
    /\ machineTimelines["B"].tasks # << >>
    /\ asTask(machineTimelines["B"].tasks[1]) = allTasks[1]
    /\ allTasks[1].allowedMachines = <<"B", "A">>
    /\ machineTimelines["A"].tasks # << >>

-----------------------------------------------------------------------------
(* C15 *)

canFit(task) ==
    \E n \in eligibleMachines(task) :
        machineTimelines[n].currentTime + task.buildTime <= totalWorkMinutes

\* C15: the turn of the loop that deals with a task puts it in overflow exactly
\* when no machine of its allowedMachines that is in the pool has
\* currentTime + buildTime <= totalWorkMinutes; that turn appends the task, and
\* nothing else, to overflowTasks and leaves every machine's tasks and
\* currentTime and totalProfit as they were.
C15_OverflowStep ==
    [][(pc = "loop" /\ taskIndex' = taskIndex + 1) =>
        LET task == allTasks[taskIndex + 1] IN
        /\ (overflowTasks' # overflowTasks) <=> ~canFit(task)
        /\ ~canFit(task) =>
            /\ overflowTasks' = Append(overflowTasks, task)
            /\ machineTimelines' = machineTimelines
            /\ totalProfit' = totalProfit
        /\ canFit(task) => machineTimelines' # machineTimelines]_vars

C15_Witness ==
    /\ finished
    /\ totalWorkMinutes > 0
    /\ assignedCount >= 2
    /\ \E k \in 1..Len(overflowTasks) : eligibleMachines(overflowTasks[k]) # {}

-----------------------------------------------------------------------------
(* C16 *)

overflowNames == {overflowTasks[k].name : k \in 1..Len(overflowTasks)}

\* C16: the aggregate of a finished schedule has one count per name of an
\* overflow task, the number of overflow tasks of that name whatever their
\* item; the counts add up to the length of the overflow sequence and the
\* missed profit is the sum of profit over the overflow tasks.  For a null
\* schedule the aggregate is the empty mapping and 0.
C16_OverflowAggregation ==
    pc = "done" =>
        LET aggregate == aggregatedOverflow(scheduleData) IN
        IF scheduleData = << >>
        THEN aggregate.items = << >> /\ aggregate.totalProfit = 0
        ELSE /\ DOMAIN aggregate.items = overflowNames
             /\ \A name \in overflowNames :
                aggregate.items[name] =
                    Cardinality({k \in 1..Len(overflowTasks) : overflowTasks[k].name = name})
             /\ sumOver(aggregate.items, DOMAIN aggregate.items) = Len(overflowTasks)
             /\ aggregate.totalProfit = profitSum(scheduleData[1].overflowTasks)
             /\ scheduleData[1].overflowTasks = overflowTasks

C16_Witness ==
    /\ finished
    /\ Len(overflowTasks) >= 3
    /\ \E k \in 1..Len(overflowTasks) : \E l \in 1..Len(overflowTasks) :
        /\ overflowTasks[k].name = overflowTasks[l].name
        /\ overflowTasks[k].id[1] # overflowTasks[l].id[1]
        /\ overflowTasks[k].profit # overflowTasks[l].profit

-----------------------------------------------------------------------------
(* C18 *)

\* C18: any two distinct expanded tasks of one computation, whether of
\* different orders or of different units of one order, have different ids,
\* also when two orders name the same item.
C18_TaskIdsDistinct ==
    started =>
        \A k \in 1..Len(allTasks) : \A l \in 1..Len(allTasks) :
            k # l => allTasks[k].id # allTasks[l].id

-----------------------------------------------------------------------------
(* C20 *)

isPrefix(s, t) == Len(s) <= Len(t) /\ SubSeq(t, 1, Len(s)) = s

\* C20: after every prefix of the loop the tasks of every machine timeline
\* have non-increasing profitPerMinute from first to last, and a step never
\* removes or moves a task that a timeline holds: the old task list is a
\* prefix of the new one.
C20_GreedyOrder ==
    /\ [](started =>
            \A n \in timelineNames : \A k \in 1..(Len(machineTimelines[n].tasks) - 1) :
                ~ppmLess(machineTimelines[n].tasks[k], machineTimelines[n].tasks[k + 1]))
    /\ [][\A n \in timelineNames :
            /\ n \in DOMAIN machineTimelines'
            /\ isPrefix(machineTimelines[n].tasks, machineTimelines'[n].tasks)]_vars

C20_Witness ==
    /\ finished
    /\ allTasks # expandedTasks
    /\ \E n \in timelineNames :
        /\ Len(machineTimelines[n].tasks) >= 3
        /\ ppmLess(machineTimelines[n].tasks[3], machineTimelines[n].tasks[1])

-----------------------------------------------------------------------------
(* C12 *)

\* C12: a run of the computation changes none of orders, items, machines and
\* settings, and a run on the props of an earlier run returns what that run
\* returned: the same timelines with the same tasks, machines, start and end
\* times in the same order, the same totalProfit and the same overflow
\* sequence (or null again), whatever the earlier run left behind.
C12_Determinism ==
    /\ [][inputs' = inputs]_vars
    /\ [][(pc # "done" /\ pc' = "done" /\ shown # << >>) => scheduleData' = shown[1]]_vars
    /\ [](pc = "done" => shown = <<scheduleData>>)

\* a second run is about to return
C12_Witness ==
    /\ pc = "loop"
    /\ shown # << >>
    /\ shown[1] # << >>
    /\ taskIndex = Len(allTasks)
    /\ assignedCount >= 2
    /\ Len(overflowTasks) >= 1
    /\ shown[1][1].totalProfit # 0

-----------------------------------------------------------------------------
(* C19 *)

\* C19: from the default state on, under add-order, generate-schedule, item,
\* machine and settings operations, a schedule that is not null holds exactly
\* the current order list, which is not empty; and a step that changes the
\* order list leaves the schedule null.
C19_ScheduleInvalidation ==
    /\ [](data.schedule # << >> =>
            /\ data.schedule[1].orders = data.orders
            /\ Len(data.orders) # 0)
    /\ [][data'.orders # data.orders => data'.schedule = << >>]_vars

\* a schedule generated for two orders has been displayed
C19_Witness ==
    /\ data.schedule # << >>
    /\ Len(data.orders) = 2
    /\ data.schedule[1].generatedAt = 3
    /\ pc = "done"
    /\ scheduleData # << >>

-----------------------------------------------------------------------------
(* C13 *)

\* C13: from the default pool on, under add-machine and delete-machine
\* operations, no two machines of data.machines have the same name, and the
\* computation builds as many timelines as the pool has machines.
C13_MachineNamesUnique ==
    /\ \A i \in 1..Len(data.machines), j \in 1..Len(data.machines) :
        i # j => data.machines[i].name # data.machines[j].name
    /\ pc = "loop" => Cardinality(DOMAIN machineTimelines) = Len(machines)

-----------------------------------------------------------------------------
(* C17 *)

\* the step changes the catalogue, the machine pool or the settings
editsResources == data'.items # data.items \/ data'.machines # data.machines
                      \/ data'.settings # data.settings

\* C17: a step that saves a schedule saves the current orders and the time of
\* generation, nothing else; a step that changes items, machines or settings
\* and not the orders leaves the saved schedule as it is; the props of
\* ScheduleView are always those of the current data, and the tasks it has
\* allocated when it displays are expanded from the current items.
C17_RecomputeOnRead ==
    /\ [][(data'.schedule # data.schedule /\ data'.schedule # << >>) =>
            /\ data'.schedule = <<[orders |-> data.orders, generatedAt |-> clock]>>
            /\ [data' EXCEPT !.schedule = << >>] = [data EXCEPT !.schedule = << >>]]_vars
    /\ [][(editsResources /\ data'.orders = data.orders) =>
            data'.schedule = data.schedule]_vars
    /\ [](/\ scheduleOrders = scheduleProp(data)
          /\ items = data.items
          /\ machines = data.machines
          /\ settings = data.settings)
    /\ []((pc = "done" /\ scheduleData # << >>) =>
            /\ allTasks = sortTasks(expandTasks(data.schedule[1].orders, data.items))
            /\ timelineNames = {data.machines[k].name : k \in 1..Len(data.machines)}
            /\ shown # << >>)

\* the schedule saved is the one first displayed, and what is displayed for
\* it now is another allocation
C17_Witness ==
    /\ pc = "done"
    /\ data.schedule # << >>
    /\ shown # << >>
    /\ shown[1] # << >>
    /\ scheduleData # << >>
    /\ scheduleData # shown[1]

====
